---------------------------- MODULE Spec2Model ----------------------------
(***************************************************************************)
(* A model of the depth chart's interaction engine                         *)
(* (src/src/feature/depth-chart/ui.ts): the gesture handlers the UI        *)
(* constructor registers (wheel, touchstart, touchmove, touchend and the   *)
(* 150 ms debounce timer) and the pointer engine (update, updatePrice,     *)
(* clearPrice, onPointerMove, onPointerOut).                               *)
(*                                                                         *)
(* Numbers.  this.transform, this.originalTransform, the scale factor k    *)
(* and the entries of scaleExtent are non-negative IEEE doubles.  The      *)
(* model stores each of them as the SQUARE of its value, written as a      *)
(* fraction <<n, d>> in lowest terms: <<n, d>> with d > 0 is n/d,          *)
(* <<1, 0>> is +Infinity and <<0, 0>> is NaN.  Squares are used because    *)
(* the pinch factor is Math.sqrt(dp / dl): its square is the fraction      *)
(* dp / dl, exact for every pair of touch positions with integer           *)
(* coordinates.  Squaring is monotone on non-negative numbers, so the      *)
(* comparisons clamp makes are the comparisons of the squares.             *)
(***************************************************************************)
EXTENDS Integers, Sequences, FiniteSets, TLC

\* ------------------------------------------------------------------ bounds

\* Touch identifiers the environment hands out: 1..MaxTouches.
MaxTouches == 2
\* |log2| of the largest and smallest squared transform the wheel may reach
\* under the unbounded default scale extent.
MaxExp == 1
\* The wheel events counted in one burst (the counter saturates here).
MaxBurst == 2
\* The debounce timers that may be pending at once.
MaxTimers == 2

\* ------------------------------------------------------- program constants

\* gesture.wheel === null (no debounce timer armed); a timer handle is > 0.
NoTimer == 0

\* ---------------------------------------------------------------- numbers

RECURSIVE GCD(_, _)
GCD(a, b) == IF b = 0 THEN a ELSE GCD(b, a % b)

Norm(x) ==
    IF x[2] = 0 THEN (IF x[1] = 0 THEN <<0, 0>> ELSE <<1, 0>>)
    ELSE IF x[1] = 0 THEN <<0, 1>>
    ELSE LET g == GCD(x[1], x[2]) IN <<x[1] \div g, x[2] \div g>>

NaN == <<0, 0>>
Infinity == <<1, 0>>
IsNaN(x) == x = NaN

\* a * b on doubles (0 * Infinity is NaN, NaN * anything is NaN)
Mul(x, y) == Norm(<<x[1] * y[1], x[2] * y[2]>>)

\* a <= b on doubles: false as soon as one side is NaN
LE(x, y) == ~IsNaN(x) /\ ~IsNaN(y) /\ x[1] * y[2] <= y[1] * x[2]

RECURSIVE TwoTo(_)
TwoTo(n) == IF n = 0 THEN 1 ELSE 2 * TwoTo(n - 1)


\* 2 ** (-deltaY * 0.002 * (ctrlKey ? 10 : 1)), as its square
\* 2 ** (-deltaY * (ctrlKey ? 10 : 1) / 250); DeltaYs keeps the exponent whole.
Pow2(deltaY, ctrlKey) ==
    LET h == ((0 - deltaY) * (IF ctrlKey THEN 10 ELSE 1)) \div 250
    IN  IF h >= 0 THEN <<TwoTo(h), 1>> ELSE <<1, TwoTo(0 - h)>>

\* lodash clamp(number, lower, upper): a NaN number is returned as it is
Clamp(number, lower, upper) ==
    IF IsNaN(number) THEN number
    ELSE LET n1 == IF LE(number, upper) THEN number ELSE upper
         IN  IF LE(lower, n1) THEN n1 ELSE lower

\* (p1[0] - p0[0]) ** 2 + (p1[1] - p0[1]) ** 2
Dist2(p0, p1) ==
    (p1[1] - p0[1]) * (p1[1] - p0[1]) + (p1[2] - p0[2]) * (p1[2] - p0[2])

\* Math.sqrt(dp / dl), as its square dp / dl (0 / 0 is NaN, dp / 0 Infinity)
SqrtRatio(dp, dl) == Norm(<<dp, dl>>)

\* ------------------------------------------------------------ input domains

\* WheelEvent.deltaY
DeltaYs == {-250, 250}
\* The positions pointer(touch) returns: the corners of a unit square.
Points == {<<0, 0>>, <<1, 0>>, <<1, 1>>}
\* Touch.identifier
TouchIds == 1 .. MaxTouches
\* The identifiers of the two fingers of a pinch.
PinchIds == {1, 2}
\* Values of the public field scaleExtent: the default [0, Infinity], and
\* an extent whose squared ends are 1/2 and 2.
ScaleExtents == {<<<<0, 1>>, Infinity>>, <<<<1, 2>>, <<2, 1>>>>}

\* A result the model follows: the squared transform stays within 2^-MaxExp
\* and 2^MaxExp (0, Infinity and NaN are always followed).
InCap(t) == t[1] <= TwoTo(MaxExp) /\ t[2] <= TwoTo(MaxExp)

Min(a, b) == IF a <= b THEN a ELSE b

\* The orders in which a TouchList may present the touches of S.
Orders(S) ==
    {s \in [1 .. Cardinality(S) -> S] :
        \A i, j \in 1 .. Cardinality(S) : i # j => s[i] # s[j]}

\* ----------------------------------------------------------------- state

VARIABLES
    \* class UI
    transform,          \* this.transform (squared)
    originalTransform,  \* this.originalTransform (squared)
    scaleExtent,        \* this.scaleExtent (squared entries)
    \* class Gesture
    wheel,              \* gesture.wheel: NoTimer or the armed timer's handle
    touch0,             \* gesture.touch0: <<>> (null) or <<record>>
    touch1,             \* gesture.touch1: <<>> (null) or <<record>>
    taps,               \* gesture.taps
    \* environment
    timers,             \* handles of the window timers still pending
    fingers,            \* touch identifier -> position, of the touches down
    \* observation of the last handler run
    lastOp,             \* which handler ran last
    emitted,            \* the events it emitted, in order
    burstLen,           \* wheel events in the current burst (saturating)
    burstStarts,        \* zoomstart emitted by the wheel handler in the burst
    burstEnds,          \* zoomend emitted by debounce timers since it began
    pinchD0,            \* squared distance of the touches when touch1 was recorded
    gestureOpen         \* <<>> when the last of zoomstart and zoomend emitted
                        \* was zoomend (or none was), else <<b>>: b tells
                        \* whether originalTransform is the transform at the
                        \* last zoomstart

\* Everything the gesture handlers own, but lastOp and emitted.
gestureState ==
    <<transform, originalTransform, scaleExtent, wheel, touch0, touch1, taps,
      timers, fingers, burstLen, burstStarts, burstEnds, pinchD0, gestureOpen>>

VARIABLES
    \* class UI: the curve and scale state update() replaces
    prices,             \* this.prices: pixel x of each point, ascending
    volumes,            \* this.volumes: pixel y of each point
    priceLabels,        \* this.priceLabels
    volumeLabels,       \* this.volumeLabels
    midPrice,           \* this.midPrice
    priceScale,         \* this.priceScale
    volumeScale,        \* this.volumeScale
    indicativePrice,    \* this._indicativePrice
    lastEvent,          \* this.lastEvent: <<>> (null) or <<event>>
    visible,            \* the visible flag of each overlay object
    \* the renderer and the page
    resolution,         \* this.renderer.resolution
    view,               \* this.renderer.view: the canvas width and height
    touchCapable,       \* "ontouchstart" in self
    \* observation
    frame,              \* the width and height handed to the last update()
    ptr,                \* what the pointer handler did in the last operation
    outSince            \* no pointer move or updatePrice since the last
                        \* clearPrice or pointer-out

pointerVars ==
    <<prices, volumes, priceLabels, volumeLabels, midPrice, priceScale,
      volumeScale, indicativePrice, lastEvent, visible, resolution, view,
      touchCapable, frame, ptr, outSince>>

VARIABLES
    \* class HorizontalAxis
    nodeByKeyValue,     \* this.nodeByKeyValue: key -> Text object
    tmByKeyValue,       \* this.tmByKeyValue: key -> Text object
    children,           \* the Container's children (Text objects)
    nodeX,              \* x of each Text object that is cached or displayed
    axisTicks           \* the last update call: its scale's domain, its
                        \* ticks and their step, the objects it created

axisVars == <<nodeByKeyValue, tmByKeyValue, children, nodeX, axisTicks>>

vars == <<gestureState, lastOp, emitted, pointerVars, axisVars>>

ZoomStart == <<"zoomstart">>
ZoomEnd == <<"zoomend">>
Zoom(t) == <<"zoom", t>>

InitGesture ==
    /\ transform = <<1, 1>>
    /\ originalTransform = <<1, 1>>
    /\ scaleExtent \in ScaleExtents
    /\ wheel = NoTimer
    /\ touch0 = <<>>
    /\ touch1 = <<>>
    /\ taps = 0
    /\ timers = {}
    /\ fingers = [i \in {} |-> <<0, 0>>]
    /\ lastOp = "init"
    /\ emitted = <<>>
    /\ burstLen = 0
    /\ burstStarts = 0
    /\ burstEnds = 0
    /\ pinchD0 = 0
    /\ gestureOpen = <<>>

\* ------------------------------------------------------------------ wheel

\* WheelStarts without the test of gesture.wheel.
WheelStartsAlways(w) == TRUE

\* The wheel handler's else branch: gesture.start() runs iff no timer is armed.
WheelStarts(w) == w = NoTimer

\* The handles window.setTimeout returns.
TimerHandles == 1 .. (MaxTimers + 1)

\* A handle window.setTimeout may return: positive, and not the handle of a
\* timer set before it that was pending when the handler began.
FreshTimer(used) == CHOOSE h \in TimerHandles : h \notin used

OnWheel(deltaY, ctrlKey) ==
    LET starts  == WheelStarts(wheel)
        cleared == IF wheel # NoTimer THEN timers \ {wheel} ELSE timers
        k       == Pow2(deltaY, ctrlKey)
        t       == Clamp(Mul(transform, k), scaleExtent[1], scaleExtent[2])
        h       == FreshTimer(timers)
        n       == IF starts THEN 1 ELSE 0
    IN  /\ InCap(t)
        /\ Cardinality(cleared) < MaxTimers
        /\ transform' = t
        /\ wheel' = h
        /\ timers' = cleared \cup {h}
        /\ emitted' = (IF starts THEN <<ZoomStart>> ELSE <<>>) \o <<Zoom(t)>>
        /\ lastOp' = "wheel"
        /\ IF timers = {}
           THEN /\ burstLen' = 1
                /\ burstStarts' = n
                /\ burstEnds' = 0
           ELSE /\ burstLen' = Min(burstLen + 1, MaxBurst)
                /\ burstStarts' = Min(burstStarts + n, MaxBurst)
                /\ burstEnds' = burstEnds
        /\ gestureOpen' = IF starts THEN <<originalTransform = transform>>
                           ELSE gestureOpen
        /\ UNCHANGED <<originalTransform, scaleExtent, touch0, touch1, taps,
                       fingers, pinchD0>>
        /\ UNCHANGED <<pointerVars, axisVars>>

\* The timer callback emitting zoomend without resetting gesture.wheel.
OnWheelTimeoutKeepsHandle(h) ==
    /\ h \in timers
    /\ timers' = timers \ {h}
    /\ wheel' = wheel
    /\ emitted' = <<ZoomEnd>>
    /\ lastOp' = "timeout"
    /\ burstEnds' = Min(burstEnds + 1, MaxBurst)
    /\ gestureOpen' = <<>>
    /\ UNCHANGED <<transform, originalTransform, scaleExtent, touch0, touch1,
                   taps, fingers, burstLen, burstStarts, pinchD0>>
    /\ UNCHANGED <<pointerVars, axisVars>>

\* The callback of window.setTimeout(..., 150), run for a pending timer.
OnWheelTimeout(h) ==
    /\ h \in timers
    /\ timers' = timers \ {h}
    /\ wheel' = NoTimer
    /\ emitted' = <<ZoomEnd>>
    /\ lastOp' = "timeout"
    /\ burstEnds' = Min(burstEnds + 1, MaxBurst)
    /\ gestureOpen' = <<>>
    /\ UNCHANGED <<transform, originalTransform, scaleExtent, touch0, touch1,
                   taps, fingers, burstLen, burstStarts, pinchD0>>
    /\ UNCHANGED <<pointerVars, axisVars>>

\* ------------------------------------------------------------------ touch

\* A Touch of a TouchList: its identifier and pointer(touch).
Touch(id, p) == [identifier |-> id, p |-> p]

\* { point: p, originalPoint: p, identifier: touch.identifier }
NewTouch(touch) ==
    [point |-> touch.p, originalPoint |-> touch.p, identifier |-> touch.identifier]

\* StartStep with `started` set for the second touch too.
StartStepStartsTwice(g, touch) ==
    IF g.touch0 = <<>>
    THEN [g EXCEPT !.touch0 = <<[point |-> touch.p, originalPoint |-> touch.p,
                                 identifier |-> touch.identifier]>>,
                   !.started = TRUE]
    ELSE IF g.touch1 = <<>> /\ g.touch0[1].identifier # touch.identifier
    THEN [g EXCEPT !.touch1 = <<[point |-> touch.p, originalPoint |-> touch.p,
                                 identifier |-> touch.identifier]>>,
                   !.taps = 0, !.started = TRUE]
    ELSE g

\* One pass of the touchstart loop; g holds touch0, touch1, taps and started.
StartStep(g, touch) ==
    IF g.touch0 = <<>>
    THEN [g EXCEPT !.touch0 = <<NewTouch(touch)>>, !.started = TRUE]
    ELSE IF g.touch1 = <<>> /\ g.touch0[1].identifier # touch.identifier
    THEN [g EXCEPT !.touch1 = <<NewTouch(touch)>>, !.taps = 0]
    ELSE g

RECURSIVE StartLoop(_, _)
StartLoop(g, touches) ==
    IF touches = <<>> THEN g
    ELSE StartLoop(StartStep(g, Head(touches)), Tail(touches))

\* The touchstart handler, for a TouchEvent whose touches list is `touches`
\* (every touch now on the surface).  A finger `id` comes down at `p`.
OnTouchStart(id, p, touches) ==
    LET g == StartLoop([touch0 |-> touch0, touch1 |-> touch1, taps |-> taps,
                        started |-> FALSE], touches)
    IN  /\ touch0' = g.touch0
        /\ touch1' = g.touch1
        /\ taps' = g.taps
        /\ originalTransform' = IF g.started THEN transform ELSE originalTransform
        /\ emitted' = IF g.started THEN <<ZoomStart>> ELSE <<>>
        /\ lastOp' = "touchstart"
        /\ pinchD0' = IF touch1 = <<>> /\ g.touch1 # <<>>
                      THEN Dist2(g.touch0[1].point, g.touch1[1].point)
                      ELSE pinchD0
        /\ gestureOpen' = IF g.started THEN <<TRUE>> ELSE gestureOpen
        /\ UNCHANGED <<transform, scaleExtent, wheel, timers, burstLen,
                       burstStarts, burstEnds>>
        /\ UNCHANGED <<pointerVars, axisVars>>

\* A finger with an identifier of `ids` comes down: the touchstart event's
\* touches list holds every finger now down, in an order the browser chooses.
TouchStartOf(ids) ==
    \E id \in ids \ DOMAIN fingers, p \in Points :
        LET down == [i \in DOMAIN fingers \cup {id} |->
                        IF i = id THEN p ELSE fingers[i]]
        IN  /\ fingers' = down
            /\ \E order \in Orders(DOMAIN down) :
                  OnTouchStart(id, p,
                      [i \in 1 .. Cardinality(DOMAIN down) |->
                          Touch(order[i], down[order[i]])])

\* MoveStep moving the origin of touch0 instead of its current position.
MoveStepMovesOrigin(g, touch) ==
    IF g.touch0 # <<>> /\ g.touch0[1].identifier = touch.identifier
    THEN [g EXCEPT !.touch0 = <<[g.touch0[1] EXCEPT !.originalPoint = touch.p]>>]
    ELSE IF g.touch1 # <<>> /\ g.touch1[1].identifier = touch.identifier
    THEN [g EXCEPT !.touch1 = <<[g.touch1[1] EXCEPT !.point = touch.p]>>]
    ELSE g

\* One pass of the touchmove loop; g holds touch0 and touch1.
MoveStep(g, touch) ==
    IF g.touch0 # <<>> /\ g.touch0[1].identifier = touch.identifier
    THEN [g EXCEPT !.touch0 = <<[g.touch0[1] EXCEPT !.point = touch.p]>>]
    ELSE IF g.touch1 # <<>> /\ g.touch1[1].identifier = touch.identifier
    THEN [g EXCEPT !.touch1 = <<[g.touch1[1] EXCEPT !.point = touch.p]>>]
    ELSE g

RECURSIVE MoveLoop(_, _)
MoveLoop(g, touches) ==
    IF touches = <<>> THEN g
    ELSE MoveLoop(MoveStep(g, Head(touches)), Tail(touches))

\* The transform a two-touch move computes from the touch records.
PinchTransform(t0, t1) ==
    LET dp == Dist2(t0.point, t1.point)
        dl == Dist2(t0.originalPoint, t1.originalPoint)
        k  == SqrtRatio(dp, dl)
    IN  Clamp(Mul(originalTransform, k), scaleExtent[1], scaleExtent[2])

\* The touchmove handler, for a TouchEvent with changedTouches `touches`.
OnTouchMove(touches) ==
    LET g == MoveLoop([touch0 |-> touch0, touch1 |-> touch1], touches)
    IN  /\ touch0' = g.touch0
        /\ touch1' = g.touch1
        /\ lastOp' = "touchmove"
        /\ IF g.touch1 # <<>>
           THEN LET t == PinchTransform(g.touch0[1], g.touch1[1])
                IN  /\ InCap(t)
                    /\ transform' = t
                    /\ emitted' = <<Zoom(Clamp(t, scaleExtent[1], scaleExtent[2]))>>
           ELSE /\ transform' = transform
                /\ emitted' = <<>>
        /\ UNCHANGED <<originalTransform, scaleExtent, wheel, taps, timers,
                       burstLen, burstStarts, burstEnds, pinchD0, gestureOpen>>
        /\ UNCHANGED <<pointerVars, axisVars>>

TouchMove ==
    \E id \in DOMAIN fingers, p \in Points :
        /\ p # fingers[id]
        /\ fingers' = [fingers EXCEPT ![id] = p]
        /\ OnTouchMove(<<Touch(id, p)>>)

\* One pass of the touchend loop; g holds touch0 and touch1.
EndStep(g, touch) ==
    IF g.touch0 # <<>> /\ g.touch0[1].identifier = touch.identifier
    THEN [g EXCEPT !.touch0 = <<>>]
    ELSE IF g.touch1 # <<>> /\ g.touch1[1].identifier = touch.identifier
    THEN [g EXCEPT !.touch1 = <<>>]
    ELSE g

RECURSIVE EndLoop(_, _)
EndLoop(g, touches) ==
    IF touches = <<>> THEN g
    ELSE EndLoop(EndStep(g, Head(touches)), Tail(touches))

\* The touchend handler without its reset.
EndResetNever(g) == g

\* if (this.gesture.touch1 && !this.gesture.touch0) clear both
EndReset(g) ==
    IF g.touch1 # <<>> /\ g.touch0 = <<>>
    THEN [g EXCEPT !.touch0 = <<>>, !.touch1 = <<>>]
    ELSE g

\* The touchend handler, for a TouchEvent with changedTouches `touches`.
OnTouchEnd(touches) ==
    LET g == EndReset(EndLoop([touch0 |-> touch0, touch1 |-> touch1], touches))
    IN  /\ touch0' = g.touch0
        /\ touch1' = g.touch1
        /\ emitted' = <<ZoomEnd>>
        /\ lastOp' = "touchend"
        /\ pinchD0' = IF g.touch1 = <<>> THEN 0 ELSE pinchD0
        /\ gestureOpen' = <<>>
        /\ UNCHANGED <<transform, originalTransform, scaleExtent, wheel, taps,
                       timers, burstLen, burstStarts, burstEnds>>
        /\ UNCHANGED <<pointerVars, axisVars>>

TouchEnd ==
    \E id \in DOMAIN fingers :
        /\ fingers' = [i \in DOMAIN fingers \ {id} |-> fingers[i]]
        /\ OnTouchEnd(<<Touch(id, fingers[id])>>)

Wheel == \E deltaY \in DeltaYs, ctrlKey \in BOOLEAN : OnWheel(deltaY, ctrlKey)

WheelTimeout == \E h \in timers : OnWheelTimeout(h)

\* --------------------------------------------------------- pointer engine

\* The overlay objects whose visible flag the pointer engine drives.
BuyGroup ==
    {"buyPriceText", "buyVolumeText", "buyVolRatioText", "buyIndicator",
     "buyOverlay"}
SellGroup ==
    {"sellPriceText", "sellVolumeText", "sellVolRatioText", "sellIndicator",
     "sellOverlay"}
AuctionGroup == {"auctionPriceText", "auctionVolumeText", "auctionIndicator"}
Overlays == BuyGroup \cup SellGroup \cup AuctionGroup

SetVisible(vis, group, b) ==
    [o \in DOMAIN vis |-> IF o \in group THEN b ELSE vis[o]]

\* A d3 linear scale with domain [d0, d1] and range [r0, r1] (r0 < r1); the
\* scales of the model map whole values to whole pixels.
Scale(s, v) == s.r0 + ((v - s.d0) * (s.r1 - s.r0)) \div (s.d1 - s.d0)

\* scale.invert(p) is InvertNum(s, p) / InvertDen(s)
InvertNum(s, p) == s.d0 * (s.r1 - s.r0) + (p - s.r0) * (s.d1 - s.d0)
InvertDen(s) == s.r1 - s.r0

\* d3 bisectLeft / bisectRight on an ascending array: the insertion point
\* before (after) the entries equal to x.
BisectLeft(a, x) == Cardinality({i \in 1 .. Len(a) : a[i] < x})
BisectRight(a, x) == Cardinality({i \in 1 .. Len(a) : a[i] <= x})

Abs(v) == IF v < 0 THEN 0 - v ELSE v

\* bisectCenter(a, x): the (0-based) index of the entry nearest to x, the
\* lower index on a tie.
BisectCenter(a, x) ==
    CHOOSE i \in 0 .. Len(a) - 1 :
        \A j \in 0 .. Len(a) - 1 :
            \/ Abs(a[i + 1] - x) < Abs(a[j + 1] - x)
            \/ (Abs(a[i + 1] - x) = Abs(a[j + 1] - x) /\ i <= j)

\* Five times the handler's `width`:
\* renderer.view.width - resolution * 8 * size, with size the length of the
\* longest formatted tick of volumeScale plus 0.8.
HandlerWidth5(ui) ==
    5 * view.width - resolution * (40 * ui.volumeScale.tickChars + 32)

\* The fields of the UI the pointer engine reads and writes.
UiState ==
    [prices |-> prices, volumes |-> volumes, priceLabels |-> priceLabels,
     volumeLabels |-> volumeLabels, midPrice |-> midPrice,
     priceScale |-> priceScale, volumeScale |-> volumeScale,
     indicativePrice |-> indicativePrice, lastEvent |-> lastEvent,
     visible |-> visible]

\* The pointer handler was not called.  `builds` counts the calls of
\* Delaunay.from in the operation.
NoPtr ==
    [called |-> FALSE, ran |-> FALSE, rendered |-> FALSE, mode |-> "none",
     width5 |-> 0, height |-> 0, buyIndex |-> -1, sellIndex |-> -1,
     x |-> 0, y |-> 0, index |-> -1, buyNearestX |-> 0, sellNearestX |-> 0,
     reads |-> {}, sellOffset |-> 0, sellOffsetNaN |-> FALSE,
     builds |-> 0]

\* A formatted label is the sequence of its comma-separated digit groups:
\* "1,000,500" is <<1, 0, 500>>.  fRound(str) removes the first comma only
\* and parseFloat stops at the next one; fRound(undefined) is NaN.
FRound(str) == IF Len(str) > 1 THEN str[1] * 1000 + str[2] ELSE str[1]

\* A side's five overlay objects are shown by the test missing its domain
\* guard.
SideShownNoDomainGuard(inDomain, present, index) ==
    present /\ index # -1

\* The test that shows or hides the five overlay objects of a side.
SideShown(inDomain, present, index) ==
    inDomain /\ present /\ index # -1

\* The non-auction branch for the device-pixel x: the two indices, the two
\* nearest positions and the visibility of each side.
Curves(ui, x) ==
    LET w5       == HandlerWidth5(ui)
        n        == Len(ui.prices)
        index    == BisectCenter(ui.prices, x)
        nearestX == ui.prices[index + 1]
        mirror   == 2 * Scale(ui.priceScale, ui.midPrice) - nearestX
        right    == 10 * x > w5
        buyIndex ==
            IF right
            THEN IF 10 * ui.prices[1] >= w5 THEN -1
                 ELSE BisectLeft(ui.prices, mirror) - 1
            ELSE index
        sellIndex ==
            IF right THEN index
            ELSE IF 10 * ui.prices[n] <= w5 THEN -1
                 ELSE BisectRight(ui.prices, mirror) - 1
        buyNearestX  == IF right THEN mirror ELSE nearestX
        sellNearestX == IF right THEN nearestX ELSE mirror
        sellPricesPresent == 10 * ui.prices[n] > w5
        buyPricesPresent  == 10 * ui.prices[1] < w5
        at(i)    == {<<"priceLabels", i>>, <<"volumes", i>>,
                     <<"volumeLabels", i>>}
    IN  [index |-> index, buyIndex |-> buyIndex, sellIndex |-> sellIndex,
         buyNearestX |-> buyNearestX, sellNearestX |-> sellNearestX,
         reads |-> {<<"prices", index>>, <<"prices", 0>>, <<"prices", n - 1>>}
                      \cup at(buyIndex) \cup at(sellIndex),
         sellOffsetNaN |-> sellIndex = -1,
         sellOffset |->
            IF sellIndex = -1 THEN 0
            ELSE FRound(ui.priceLabels[sellIndex + 1]) - ui.midPrice,
         buyVisible |->
            SideShown(InvertNum(ui.priceScale, buyNearestX)
                          > ui.priceScale.d0 * InvertDen(ui.priceScale),
                      buyPricesPresent, buyIndex),
         sellVisible |->
            SideShown(InvertNum(ui.priceScale, sellNearestX)
                          < ui.priceScale.d1 * InvertDen(ui.priceScale),
                      sellPricesPresent, sellIndex)]

\* delaunay.find(x, y): the index of a point nearest to (x, y).
AuctionIndex(ui, x, y) ==
    LET d2(i) == Dist2(<<x, y>>, <<ui.prices[i + 1], ui.volumes[i + 1]>>)
    IN  CHOOSE i \in 0 .. Len(ui.prices) - 1 :
            \A j \in 0 .. Len(ui.prices) - 1 :
                d2(i) < d2(j) \/ (d2(i) = d2(j) /\ i <= j)

\* The auction branch: whether the tooltip is shown (d < radius).
AuctionShown(ui, x, y) ==
    LET index == AuctionIndex(ui, x, y)
    IN  Dist2(<<x, y>>, <<ui.prices[index + 1], ui.volumes[index + 1]>>)
            < (50 * resolution) * (50 * resolution)

\* The pointer x left in CSS pixels.
DeviceXUnscaled(x) == x

\* x *= resolution
DeviceX(x) == x * resolution

\* The touch test that never suppresses the handler.
TouchSuppressedNever(capable) == FALSE

\* if ("ontouchstart" in self) return;
TouchSuppressed(capable) == capable

\* The guard of the handler's body letting a single price through.
BodyRunsOnOnePrice(ui, event) == event.x # 0 /\ Len(ui.prices) > 0

\* if (x && this.prices.length > 1): 0 is falsy
BodyRuns(ui, event) == event.x # 0 /\ Len(ui.prices) > 1

\* onPointerMove(event) run on the UI fields `ui`: the fields after it, and
\* a record of what it did.
OnPointerMove(ui, event) ==
    IF TouchSuppressed(touchCapable)
    THEN [ui |-> ui, ptr |-> [NoPtr EXCEPT !.called = TRUE]]
    ELSE LET ui1 == [ui EXCEPT !.lastEvent = <<event>>]
             x   == DeviceX(event.x)
             y   == event.y * resolution
         IN  IF BodyRuns(ui, event)
             THEN IF ui.indicativePrice # 0
                  THEN [ui |-> [ui1 EXCEPT !.visible =
                                   SetVisible(ui.visible, AuctionGroup,
                                              AuctionShown(ui, x, y))],
                        ptr |-> [NoPtr EXCEPT !.called = TRUE, !.ran = TRUE,
                                    !.rendered = TRUE, !.mode = "auction",
                                    !.builds = 1,
                                    !.width5 = HandlerWidth5(ui),
                                    !.height = view.height,
                                    !.x = x, !.y = y]]
                  ELSE LET c == Curves(ui, x)
                       IN  [ui |-> [ui1 EXCEPT !.visible =
                                       SetVisible(
                                           SetVisible(ui.visible, BuyGroup,
                                                      c.buyVisible),
                                           SellGroup, c.sellVisible)],
                            ptr |-> [NoPtr EXCEPT !.called = TRUE, !.ran = TRUE,
                                        !.rendered = TRUE, !.mode = "curves",
                                        !.width5 = HandlerWidth5(ui),
                                        !.height = view.height,
                                        !.x = x, !.y = y,
                                        !.index = c.index,
                                        !.buyIndex = c.buyIndex,
                                        !.sellIndex = c.sellIndex,
                                        !.buyNearestX = c.buyNearestX,
                                        !.sellNearestX = c.sellNearestX,
                                        !.reads = c.reads,
                                        !.sellOffset = c.sellOffset,
                                        !.sellOffsetNaN = c.sellOffsetNaN]]
             ELSE [ui |-> ui1, ptr |-> [NoPtr EXCEPT !.called = TRUE]]

\* OnPointerOut that keeps the cached event.
OnPointerOutKeepsEvent(ui) ==
    [ui EXCEPT !.visible = SetVisible(ui.visible, BuyGroup \cup SellGroup, FALSE)]

\* onPointerOut(): the fields of the UI after it.
OnPointerOut(ui) ==
    [ui EXCEPT !.visible = SetVisible(ui.visible, BuyGroup \cup SellGroup, FALSE),
               !.lastEvent = <<>>]

\* The arguments update() stores, as one record.
WithData(ui, d) ==
    [ui EXCEPT !.prices = d.prices, !.volumes = d.volumes,
               !.midPrice = d.midPrice, !.priceLabels = d.priceLabels,
               !.volumeLabels = d.volumeLabels, !.priceScale = d.priceScale,
               !.volumeScale = d.volumeScale]

\* OnUpdate running the pointer handler before it stores the arguments.
OnUpdateHandlerFirst(ui, d) ==
    IF ui.lastEvent # <<>>
    THEN LET r == OnPointerMove(ui, ui.lastEvent[1])
         IN  [ui |-> WithData(r.ui, d), ptr |-> r.ptr]
    ELSE [ui |-> WithData(ui, d), ptr |-> NoPtr]

\* update(): the arguments are stored, then the cached event is replayed.
OnUpdate(ui, d) ==
    LET ui1 == WithData(ui, d)
    IN  IF ui1.lastEvent # <<>>
        THEN OnPointerMove(ui1, ui1.lastEvent[1])
        ELSE [ui |-> ui1, ptr |-> NoPtr]

\* The UI fields become those of `ui`.
StoreUi(ui) ==
    /\ prices' = ui.prices
    /\ volumes' = ui.volumes
    /\ priceLabels' = ui.priceLabels
    /\ volumeLabels' = ui.volumeLabels
    /\ midPrice' = ui.midPrice
    /\ priceScale' = ui.priceScale
    /\ volumeScale' = ui.volumeScale
    /\ indicativePrice' = ui.indicativePrice
    /\ lastEvent' = ui.lastEvent
    /\ visible' = ui.visible

PointerOp(op) ==
    /\ lastOp' = op
    /\ emitted' = <<>>
    /\ UNCHANGED <<gestureState, resolution, view, touchCapable, axisVars>>

\* ---- inputs of the pointer engine

\* One pixel per unit of price, on the domain [0, 50].
UnitScale == [d0 |-> 0, d1 |-> 50, r0 |-> 0, r1 |-> 50]
\* The same slope on the domain [15, 35]: the outer prices lie outside it.
NarrowScale == [d0 |-> 15, d1 |-> 35, r0 |-> 15, r1 |-> 35]
\* scaleLinear(): domain [0, 1], range [0, 1]
DefaultScale == [d0 |-> 0, d1 |-> 1, r0 |-> 0, r1 |-> 1]
WideScale == [d0 |-> 0, d1 |-> 500, r0 |-> 0, r1 |-> 500]
\* Prices around one million, 100 to the pixel.
MillionScale == [d0 |-> 997500, d1 |-> 1002500, r0 |-> 0, r1 |-> 50]

\* A volume scale, by the length of its longest formatted tick.
VolumeScale(chars) == [tickChars |-> chars]

\* The digit groups of a whole number formatted with thousands separators.
RECURSIVE Groups(_)
Groups(v) == IF v < 1000 THEN <<v>> ELSE Append(Groups(v \div 1000), v % 1000)

\* update's arguments for the curve with pixel positions ps and vs: the
\* labels are the formatted price at each position and the formatted volume.
Data(ps, vs, mid, scale) ==
    [prices |-> ps, volumes |-> vs, midPrice |-> mid,
     priceLabels |->
        [i \in 1 .. Len(ps) |->
            Groups(InvertNum(scale, ps[i]) \div InvertDen(scale))],
     volumeLabels |-> [i \in 1 .. Len(vs) |-> Groups(vs[i])],
     priceScale |-> scale, volumeScale |-> VolumeScale(1)]

\* The curve data update() is called with.
Datasets ==
    {Data(<<10, 20, 30, 40>>, <<5, 5, 5, 5>>, 25, UnitScale),
     Data(<<10, 20, 30, 40>>, <<5, 5, 5, 5>>, 25, NarrowScale),
     Data(<<10, 20, 30, 40>>, <<5, 5, 5, 5>>, 1000000, MillionScale),
     Data(<<10, 20, 40>>, <<5, 5, 5>>, 25, UnitScale),
     Data(<<30, 40>>, <<5, 5>>, 25, UnitScale),
     Data(<<100, 400>>, <<100, 400>>, 250, WideScale),
     Data(<<10>>, <<5>>, 25, UnitScale),
     Data(<<>>, <<>>, 25, UnitScale)}

\* The width and height update() is called with.
Frames == {[width |-> 50, height |-> 40], [width |-> 64, height |-> 40]}
\* renderer.view
Views == {[width |-> 64, height |-> 40], [width |-> 100, height |-> 40]}
\* event.data.global of a pointer-move event
PointerEvents ==
    {[x |-> 0, y |-> 5], [x |-> 12, y |-> 5], [x |-> 32, y |-> 5],
     [x |-> 110, y |-> 110], [x |-> 130, y |-> 140]}
\* The argument of updatePrice and of the indicativePrice setter.
Prices == {20, 25}
IndicativePrices == {0, 25}

\* ---- operations of the pointer engine

Update ==
    \E d \in Datasets, f \in Frames :
        LET r == OnUpdate(UiState, d)
        IN  /\ StoreUi(r.ui)
            /\ ptr' = r.ptr
            /\ frame' = f
            /\ outSince' = outSince
            /\ PointerOp("update")

PointerMove ==
    \E event \in PointerEvents :
        LET r == OnPointerMove(UiState, event)
        IN  /\ StoreUi(r.ui)
            /\ ptr' = r.ptr
            /\ outSince' = FALSE
            /\ frame' = frame
            /\ PointerOp("pointermove")

\* updatePrice(price): a pointer move at x = priceScale(price), y = 0
UpdatePrice ==
    \E price \in Prices :
        LET r == OnPointerMove(UiState, [x |-> Scale(priceScale, price), y |-> 0])
        IN  /\ StoreUi(r.ui)
            /\ ptr' = r.ptr
            /\ outSince' = FALSE
            /\ frame' = frame
            /\ PointerOp("updatePrice")

PointerOut ==
    /\ StoreUi(OnPointerOut(UiState))
    /\ ptr' = [NoPtr EXCEPT !.rendered = TRUE]
    /\ outSince' = TRUE
    /\ frame' = frame
    /\ PointerOp("pointerout")

\* clearPrice() calls onPointerOut()
ClearPrice ==
    /\ StoreUi(OnPointerOut(UiState))
    /\ ptr' = [NoPtr EXCEPT !.rendered = TRUE]
    /\ outSince' = TRUE
    /\ frame' = frame
    /\ PointerOp("clearPrice")

\* set indicativePrice(price)
SetIndicativePrice ==
    \E price \in IndicativePrices :
        /\ price # indicativePrice
        /\ StoreUi([UiState EXCEPT !.indicativePrice = price])
        /\ ptr' = NoPtr
        /\ UNCHANGED <<outSince, frame>>
        /\ PointerOp("indicativePrice")

\* The constructor hides the eight labels.  It sets no visible flag on the
\* indicators and overlay rectangles, whose classes are imported from outside
\* the repository: they start either all hidden or all shown.
Unset ==
    {"buyIndicator", "buyOverlay", "sellIndicator", "sellOverlay",
     "auctionIndicator"}
InitialVisible == {[o \in Overlays |-> o \in Unset /\ b] : b \in BOOLEAN}

\* The UI after construction.
InitUi ==
    /\ prices = <<>>
    /\ volumes = <<>>
    /\ priceLabels = <<>>
    /\ volumeLabels = <<>>
    /\ midPrice = 0
    /\ priceScale = DefaultScale
    /\ volumeScale = VolumeScale(1)
    /\ indicativePrice = 0
    /\ lastEvent = <<>>
    /\ frame = [width |-> view.width, height |-> view.height]
    /\ ptr = NoPtr
    /\ outSince = FALSE

\* -------------------------------------------------------- horizontal axis

\* Axis values are in tenths.  scale.ticks(numTicks) of a linear scale: the
\* multiples of the step within the domain, ascending.
Ticks(domain, step) ==
    LET first == ((domain[1] + step - 1) \div step) * step
        count == IF first > domain[2] THEN 0 ELSE (domain[2] - first) \div step + 1
    IN  [i \in 1 .. count |-> first + (i - 1) * step]

\* scale.tickFormat(numTicks): fixed notation with the decimals the step
\* needs, "1" for a whole step and "1.0" for a step of a half.  A label is
\* its value and its number of decimals.
TickFormat(step, tick) ==
    [value |-> tick, decimals |-> IF step % 10 = 0 THEN 0 ELSE 1]

\* The map keys: the label itself, and the label followed by "|".
Key(label) == [text |-> label, bar |-> FALSE]
KeyBar(label) == [text |-> label, bar |-> TRUE]

\* scale(tick) on an axis AxisWidth pixels wide.
AxisWidth == 20
AxisScale(domain, tick) ==
    ((tick - domain[1]) * AxisWidth) \div (domain[2] - domain[1])

\* The fields of the axis as one record.
AxisState ==
    [nodeByKeyValue |-> nodeByKeyValue, tmByKeyValue |-> tmByKeyValue,
     children |-> children, nodeX |-> nodeX, created |-> {}]

\* Map.set(key, value) and Map.delete(key)
MapSet(map, key, value) ==
    [k \in DOMAIN map \cup {key} |-> IF k = key THEN value ELSE map[k]]
MapDelete(map, key) == [k \in DOMAIN map \ {key} |-> map[k]]

Values(map) == {map[k] : k \in DOMAIN map}

\* new Text(str, ...): an object no map and no container refers to.  An
\* object is named by its text (a label, or "|" for the tick mark of a
\* label) and a serial that tells it from the objects still referred to.
NewText(ax, label, glyph) ==
    LET used == Values(ax.nodeByKeyValue) \cup Values(ax.tmByKeyValue)
                    \cup ax.children
        object(n) == [of |-> label, glyph |-> glyph, serial |-> n]
    IN  object(CHOOSE n \in 0 .. Cardinality(used) :
                   /\ object(n) \notin used
                   /\ \A k \in 0 .. n - 1 : object(k) \in used)

\* One pass of the enter loop.
EnterStep(ax, domain, step, node) ==
    LET label    == TickFormat(step, node)
        text     == NewText(ax, label, "label")
        tickMark == NewText(ax, label, "|")
    IN  [nodeByKeyValue |-> MapSet(ax.nodeByKeyValue, Key(label), text),
         tmByKeyValue |-> MapSet(ax.tmByKeyValue, KeyBar(label), tickMark),
         children |-> ax.children \cup {text, tickMark},
         nodeX |-> MapSet(MapSet(ax.nodeX, text, AxisScale(domain, node)),
                          tickMark, AxisScale(domain, node)),
         created |-> ax.created \cup {text, tickMark}]

RECURSIVE EnterLoop(_, _, _, _)
EnterLoop(ax, domain, step, enter) ==
    IF enter = <<>> THEN ax
    ELSE EnterLoop(EnterStep(ax, domain, step, Head(enter)), domain, step,
                   Tail(enter))

\* The update loop taking the cached objects off the container and building
\* new ones, as the enter loop does.
UpdateStepRecreates(ax, domain, step, node) ==
    LET label == TickFormat(step, node)
        text  == ax.nodeByKeyValue[Key(label)]
        tm    == ax.tmByKeyValue[KeyBar(label)]
    IN  EnterStep([ax EXCEPT !.children = @ \ {text, tm}], domain, step, node)

\* One pass of the update loop: the cached label and tick mark are moved.
UpdateStep(ax, domain, step, node) ==
    LET label == TickFormat(step, node)
        text  == ax.nodeByKeyValue[Key(label)]
        tm    == ax.tmByKeyValue[KeyBar(label)]
    IN  [ax EXCEPT !.nodeX = MapSet(MapSet(@, text, AxisScale(domain, node)),
                                    tm, AxisScale(domain, node))]

RECURSIVE UpdateLoop(_, _, _, _)
UpdateLoop(ax, domain, step, update) ==
    IF update = <<>> THEN ax
    ELSE UpdateLoop(UpdateStep(ax, domain, step, Head(update)), domain, step,
                    Tail(update))

\* The exit loop removing the objects from the container but leaving the
\* label in its map.
ExitStepKeepsLabel(ax, node) ==
    LET text == ax.nodeByKeyValue[node]
        tm   == ax.tmByKeyValue[KeyBar(node.text)]
    IN  [ax EXCEPT !.tmByKeyValue = MapDelete(@, node),
                   !.children = @ \ {text, tm}]

\* One pass of the exit loop, for the key `node` of nodeByKeyValue: the
\* tick mark is looked up under node + "|" and deleted under node.
ExitStep(ax, node) ==
    LET text == ax.nodeByKeyValue[node]
        tm   == ax.tmByKeyValue[KeyBar(node.text)]
    IN  [ax EXCEPT !.nodeByKeyValue = MapDelete(@, node),
                   !.tmByKeyValue = MapDelete(@, node),
                   !.children = @ \ {text, tm}]

RECURSIVE ExitLoop(_, _)
ExitLoop(ax, exit) ==
    IF exit = {} THEN ax
    ELSE LET node == CHOOSE k \in exit : TRUE
         IN  ExitLoop(ExitStep(ax, node), exit \ {node})

\* The x of the objects a map or the container still refers to.
Collect(ax) ==
    LET used == Values(ax.nodeByKeyValue) \cup Values(ax.tmByKeyValue)
                    \cup ax.children
    IN  [ax EXCEPT !.nodeX = [n \in used |-> @[n]]]

\* HorizontalAxis.update(scale, ...) for a scale with the given domain whose
\* ticks(numTicks) are step apart.
OnAxisUpdate(ax, domain, step) ==
    LET ticks  == Ticks(domain, step)
        has(t) == Key(TickFormat(step, t)) \in DOMAIN ax.nodeByKeyValue
        enter  == SelectSeq(ticks, LAMBDA t : ~has(t))
        update == SelectSeq(ticks, has)
        labels == {TickFormat(step, ticks[i]) : i \in DOMAIN ticks}
        exit   == {k \in DOMAIN ax.nodeByKeyValue : k.text \notin labels}
    IN  Collect(ExitLoop(UpdateLoop(EnterLoop(ax, domain, step, enter),
                                    domain, step, update),
                         exit))

\* The domains of the scales the axis is updated with, and the tick steps
\* numTicks gives on them.
AxisDomains == {<<0, 20>>, <<0, 10>>, <<10, 20>>}
AxisSteps == {5, 10}

AxisUpdate ==
    \E domain \in AxisDomains, step \in AxisSteps :
        LET ax == OnAxisUpdate(AxisState, domain, step)
        IN  /\ nodeByKeyValue' = ax.nodeByKeyValue
            /\ tmByKeyValue' = ax.tmByKeyValue
            /\ children' = ax.children
            /\ nodeX' = ax.nodeX
            /\ axisTicks' = [domain |-> domain, step |-> step,
                             ticks |-> Ticks(domain, step),
                             created |-> ax.created]
            /\ lastOp' = "axisUpdate"
            /\ emitted' = <<>>
            /\ UNCHANGED <<gestureState, pointerVars>>

\* The axis after construction: empty maps, no children.
InitAxis ==
    /\ nodeByKeyValue = <<>>
    /\ tmByKeyValue = <<>>
    /\ children = {}
    /\ nodeX = <<>>
    /\ axisTicks = [domain |-> <<0, 1>>, step |-> 10, ticks |-> <<>>,
                    created |-> {}]

\* --------------------------------------------------------- specifications

\* The gesture machine, on a page without touch-capable pointer filtering.
Init ==
    /\ InitGesture
    /\ resolution = 1
    /\ view = [width |-> 64, height |-> 40]
    /\ touchCapable = FALSE
    /\ visible = [o \in Overlays |-> FALSE]
    /\ InitUi
    /\ InitAxis

\* Wheel, debounce timer and the touches of two fingers, interleaved.
Next ==
    \/ Wheel
    \/ WheelTimeout
    \/ TouchStartOf(PinchIds)
    \/ TouchMove
    \/ TouchEnd

Spec == Init /\ [][Next]_vars

\* The wheel and its debounce timer, with one finger tapping in between, under
\* the browser's timers: a timer that stays pending is eventually run
\* (window.setTimeout runs its callback after the delay unless
\* window.clearTimeout removed it).
NextTimers ==
    \/ Wheel
    \/ WheelTimeout
    \/ TouchStartOf({1})
    \/ TouchEnd

TimersFair == \A h \in TimerHandles : WF_vars(OnWheelTimeout(h))

SpecTimers == Init /\ [][NextTimers]_vars /\ TimersFair

\* Wheel, debounce timer and the touches of two fingers under the browser's
\* timers.
SpecGestures == Init /\ [][Next]_vars /\ TimersFair

\* The three touch handlers alone, with up to MaxTouches fingers.
NextTouch ==
    \/ TouchStartOf(TouchIds)
    \/ TouchMove
    \/ TouchEnd

SpecTouch == Init /\ [][NextTouch]_vars

\* The pointer engine alone: update, the pointer events and the price cursor.
InitPointer ==
    /\ InitGesture
    /\ scaleExtent = <<<<0, 1>>, Infinity>>
    /\ resolution \in {1, 2}
    /\ view \in Views
    /\ touchCapable \in BOOLEAN
    /\ visible \in InitialVisible
    /\ InitUi
    /\ InitAxis

NextPointer ==
    \/ Update
    \/ PointerMove
    \/ UpdatePrice
    \/ PointerOut
    \/ ClearPrice
    \/ SetIndicativePrice

SpecPointer == InitPointer /\ [][NextPointer]_vars

\* The horizontal axis alone, updated with changing scales.
NextAxis == AxisUpdate

InitAxisOnly ==
    /\ InitGesture
    /\ scaleExtent = <<<<0, 1>>, Infinity>>
    /\ resolution = 1
    /\ view = [width |-> 64, height |-> 40]
    /\ touchCapable = FALSE
    /\ visible = [o \in Overlays |-> FALSE]
    /\ InitUi
    /\ InitAxis

SpecAxis == InitAxisOnly /\ [][NextAxis]_vars

\* ------------------------------------------------------------ properties

Range(s) == {s[i] : i \in DOMAIN s}

\* lower <= t <= upper for the current scale extent
InExtent(t) == LE(scaleExtent[1], t) /\ LE(t, scaleExtent[2])

\* The finger whose touch the last touchmove or touchend event carried.
Moved(id) == id \in DOMAIN fingers /\ id \in DOMAIN fingers' /\ fingers'[id] # fingers[id]
Lifted(id) == id \in DOMAIN fingers /\ id \notin DOMAIN fingers'

\* C1: in a burst of wheel events, each arriving while the debounce timer of
\* the previous one is still pending, the wheel handler emits exactly one
\* zoomstart, and exactly one zoomend follows, when the last-armed timer
\* fires: none while a timer is pending, one once the burst is over, however
\* many wheel events the burst holds.
C1_BurstOneStartOneEnd ==
    burstLen > 0 =>
        /\ burstStarts = 1
        /\ Cardinality(timers) <= 1
        /\ timers # {} => (burstEnds = 0 /\ timers = {wheel})
        /\ timers = {} => (burstEnds = 1 /\ wheel = NoTimer)

C1_Witness ==
    /\ burstLen = MaxBurst
    /\ timers = {}
    /\ burstEnds = 1
    /\ lastOp = "timeout"

\* C2: when touch0 and touch1 are both recorded and a touchend removes either
\* of them, both records are null after it.
C2_EndOfEitherClearsBoth ==
    [][(/\ touch0 # <<>>
        /\ touch1 # <<>>
        /\ lastOp' = "touchend"
        /\ \E id \in DOMAIN fingers :
              /\ Lifted(id)
              /\ id \in {touch0[1].identifier, touch1[1].identifier})
       => (touch0' = <<>> /\ touch1' = <<>>)]_vars

\* C3: after every wheel event and every two-touch move the transform lies
\* within the scale extent, and the zoom event carries that transform.
C3_TransformInExtent ==
    (lastOp = "wheel" \/ (lastOp = "touchmove" /\ touch1 # <<>>)) =>
        /\ InExtent(transform)
        /\ Zoom(transform) \in Range(emitted)

\* C4: after each move of a pinch, transform is
\* clamp(originalTransform * D1 / D0, extent), D0 the distance of the two
\* touches when the pinch began and D1 their distance now (stated for the
\* pinches whose D0 is not 0, where the quotient is a number).
C4_PinchFormula ==
    (/\ lastOp = "touchmove"
     /\ touch1 # <<>>
     /\ pinchD0 # 0
     /\ touch0[1].originalPoint # touch1[1].originalPoint) =>
        transform =
            Clamp(Mul(originalTransform,
                      SqrtRatio(Dist2(touch0[1].point, touch1[1].point), pinchD0)),
                  scaleExtent[1], scaleExtent[2])

\* C5: a touchstart emits zoomstart exactly when it records touch0, and then
\* originalTransform becomes the transform of that moment; a touchstart that
\* records only touch1 emits nothing, leaves originalTransform alone and
\* leaves the tap counter at 0.
C5_TouchStartZoomStart ==
    [][lastOp' = "touchstart" /\ DOMAIN fingers' # DOMAIN fingers =>
        /\ (ZoomStart \in Range(emitted')) <=> (touch0 = <<>> /\ touch0' # <<>>)
        /\ (touch0 = <<>> /\ touch0' # <<>>) => originalTransform' = transform
        /\ (touch0 # <<>> /\ touch1 = <<>> /\ touch1' # <<>>) =>
              /\ touch1'[1].identifier # touch0[1].identifier
              /\ emitted' = <<>>
              /\ originalTransform' = originalTransform
              /\ taps' = 0]_vars

C5_Witness ==
    /\ lastOp = "touchstart"
    /\ touch1 # <<>>
    /\ emitted = <<>>
    /\ originalTransform # transform

\* C6: a touch move while only touch0 is recorded moves that touch's current
\* position, and changes neither transform nor originalTransform, and emits
\* no event.
C6_SingleTouchMove ==
    [][(lastOp' = "touchmove" /\ touch0 # <<>> /\ touch1 = <<>>) =>
        /\ transform' = transform
        /\ originalTransform' = originalTransform
        /\ emitted' = <<>>
        /\ touch1' = <<>>
        /\ \A id \in DOMAIN fingers :
              (Moved(id) /\ id = touch0[1].identifier) =>
                  touch0' = <<[touch0[1] EXCEPT !.point = fingers'[id]]>>]_vars

C6_Witness ==
    /\ lastOp = "touchmove"
    /\ touch0 # <<>>
    /\ touch1 = <<>>
    /\ touch0[1].point # touch0[1].originalPoint
    /\ emitted = <<>>

\* What the pointer handler computes for the cached event from the fields
\* the UI now holds: in auction mode the visibility of the auction tooltip,
\* otherwise the two indices and the visibility of the two sides.
ReplayMatches ==
    LET x == lastEvent[1].x * resolution
        y == lastEvent[1].y * resolution
    IN  IF indicativePrice # 0
        THEN /\ ptr.mode = "auction"
             /\ \A o \in AuctionGroup : visible[o] = AuctionShown(UiState, x, y)
        ELSE LET c == Curves(UiState, x)
             IN  /\ ptr.mode = "curves"
                 /\ ptr.buyIndex = c.buyIndex
                 /\ ptr.sellIndex = c.sellIndex
                 /\ \A o \in BuyGroup : visible[o] = c.buyVisible
                 /\ \A o \in SellGroup : visible[o] = c.sellVisible

\* C7: after clearPrice() or a pointer-out event every pointer-driven overlay
\* is hidden, the auction labels and indicator included, and the cached last
\* event is null.
C7_OutHidesEveryOverlay ==
    lastOp \in {"pointerout", "clearPrice"} =>
        /\ \A o \in Overlays : ~visible[o]
        /\ lastEvent = <<>>

\* The state C7 fails in whatever the indicators' initial visibility: the
\* auction labels, shown by a pointer move in auction mode, are still shown
\* after the pointer-out that nulled the cached event.
C7_Witness ==
    /\ lastOp \in {"pointerout", "clearPrice"}
    /\ lastEvent = <<>>
    /\ visible["auctionPriceText"]
    /\ visible["auctionVolumeText"]
    /\ \A o \in BuyGroup \cup SellGroup : ~visible[o]

\* C8: after clearPrice() or a pointer-out event, an update call that comes
\* before the next pointer move or updatePrice does not call the pointer
\* handler, and leaves the buy and sell overlay groups hidden.
C8_NoReplayAfterOut ==
    (lastOp = "update" /\ outSince) =>
        /\ ~ptr.called
        /\ lastEvent = <<>>
        /\ \A o \in BuyGroup \cup SellGroup : ~visible[o]

C8_Witness ==
    /\ lastOp = "update"
    /\ outSince
    /\ ~touchCapable
    /\ indicativePrice = 0
    /\ Len(prices) > 1

\* C9: whenever a last event is cached and update supplies at least 2 prices
\* (the case the pointer handler acts on), update leaves the indices and the
\* overlay visibility computed from the arrays and scales it was given.
C9_UpdateRecomputes ==
    (lastOp = "update" /\ lastEvent # <<>> /\ Len(prices) > 1) =>
        (ptr.ran /\ ReplayMatches)

\* C9, what update does establish: the handler is always called on the cached
\* event; its body runs, on the arrays and scales just supplied, exactly when
\* the cached x is not 0 and at least 2 prices were supplied, and otherwise
\* nothing is recomputed and nothing is rendered by it.
C9_UpdateRecomputesGivenData ==
    (lastOp = "update" /\ lastEvent # <<>>) =>
        /\ ptr.called
        /\ IF lastEvent[1].x # 0 /\ Len(prices) > 1
           THEN ptr.ran /\ ReplayMatches
           ELSE ~ptr.ran /\ ~ptr.rendered

\* The state C9 fails in: update has replaced the curves with 2 or more
\* prices while an event at x = 0 is cached, and the handler's body was
\* skipped.
C9_Witness ==
    /\ lastOp = "update"
    /\ lastEvent # <<>>
    /\ lastEvent[1].x = 0
    /\ Len(prices) > 1
    /\ ~ptr.ran

\* C10: whenever the pointer handler's body runs, the width and height it
\* works with are the width and height handed to the most recent update.
C10_HandlerUsesSuppliedViewport ==
    ptr.ran => (ptr.width5 = 5 * frame.width /\ ptr.height = frame.height)

\* The pointer handler ran its non-auction branch in the last operation.
ActedOnCurves ==
    /\ lastOp \in {"pointermove", "updatePrice", "update"}
    /\ ptr.ran
    /\ ptr.mode = "curves"

\* C11: after every non-auction pointer move that is acted on, the five buy
\* objects are all visible if prices[0] is left of mid-x, buyIndex is not -1
\* and invert(buyNearestX) is above the lower domain bound, and all hidden
\* otherwise; the five sell objects are all visible if the last price is
\* right of mid-x, sellIndex is not -1 and invert(sellNearestX) is below the
\* upper domain bound, and all hidden otherwise.
C11_VisibilityRule ==
    ActedOnCurves =>
        LET buyShown ==
                /\ 10 * prices[1] < ptr.width5
                /\ ptr.buyIndex # -1
                /\ InvertNum(priceScale, ptr.buyNearestX)
                      > priceScale.d0 * InvertDen(priceScale)
            sellShown ==
                /\ 10 * prices[Len(prices)] > ptr.width5
                /\ ptr.sellIndex # -1
                /\ InvertNum(priceScale, ptr.sellNearestX)
                      < priceScale.d1 * InvertDen(priceScale)
        IN  /\ \A o \in BuyGroup : visible[o] = buyShown
            /\ \A o \in SellGroup : visible[o] = sellShown

\* A pointer move has shown the five sell objects and hidden the five buy
\* objects.
C11_Witness ==
    /\ ActedOnCurves
    /\ lastOp = "pointermove"
    /\ \A o \in SellGroup : visible[o]
    /\ \A o \in BuyGroup : ~visible[o]

\* C12: in non-auction pointer handling the sentinel -1 is checked before
\* use: none of prices, volumes, priceLabels and volumeLabels is read at
\* index -1 during the pointer move.
C12_SentinelNeverRead ==
    ActedOnCurves =>
        \A a \in {"prices", "volumes", "priceLabels", "volumeLabels"} :
            <<a, -1>> \notin ptr.reads

\* The state C12 fails in: buyIndex is the sentinel and the labels and
\* volumes were read at it.
C12_Witness ==
    /\ ActedOnCurves
    /\ ptr.buyIndex = -1
    /\ ptr.sellIndex # -1
    /\ {<<"priceLabels", -1>>, <<"volumes", -1>>, <<"volumeLabels", -1>>}
          \subseteq ptr.reads

\* The step is a call of the pointer handler: a pointer-move event, an
\* updatePrice, or an update that replays the cached event.
HandlerStep ==
    /\ lastOp' \in {"pointermove", "updatePrice", "update"}
    /\ ptr'.called

\* C13: with fewer than 2 cached prices, a pointer move (direct, via update
\* or via updatePrice) changes no overlay visibility, leaves the cached last
\* event as it was and triggers no redraw.
C13_FewPricesNoOp ==
    [][(HandlerStep /\ Len(prices') < 2) =>
        /\ visible' = visible
        /\ lastEvent' = lastEvent
        /\ ~ptr'.rendered]_vars

\* C13, amended: with fewer than 2 cached prices, a pointer move changes no
\* overlay visibility or position and triggers no redraw; outside a
\* touch-capable environment it still stores its event as the cached last
\* event (for the replay inside update that is the event already cached).
C13_FewPricesNoOverlayChange ==
    [][(HandlerStep /\ Len(prices') < 2) =>
        /\ visible' = visible
        /\ ~ptr'.ran
        /\ ~ptr'.rendered
        /\ lastOp' = "update" => lastEvent' = lastEvent
        /\ ~touchCapable => lastEvent' # <<>>
        /\ touchCapable => lastEvent' = lastEvent]_vars

\* A pointer move on a single cached price, with a label still shown from
\* the data before it.
C13_Witness ==
    /\ lastOp = "pointermove"
    /\ Len(prices) = 1
    /\ ptr.called
    /\ ~ptr.ran
    /\ lastEvent # <<>>
    /\ lastEvent[1].x # 0
    /\ visible["buyPriceText"]

\* C14: in a touch-capable environment a pointer-move event, the
\* re-evaluation inside update and updatePrice all leave the overlay
\* visibility and the cached last event unchanged, run none of the handler's
\* body (no overlay is repositioned) and trigger no redraw.
C14_TouchSuppressesPointer ==
    [][(touchCapable /\ lastOp' \in {"pointermove", "updatePrice", "update"}) =>
        /\ visible' = visible
        /\ lastEvent' = lastEvent
        /\ lastEvent' = <<>>
        /\ ~ptr'.ran
        /\ ~ptr'.rendered]_vars

\* updatePrice was called in a touch-capable environment with curves of 2 or
\* more prices in place, and did nothing.
C14_Witness ==
    /\ touchCapable
    /\ lastOp = "updatePrice"
    /\ Len(prices) > 1
    /\ indicativePrice = 0
    /\ ptr.called
    /\ ~ptr.ran
    /\ lastEvent = <<>>

\* The entry of prices at a 0-based index is at the pixel position.
BoundTo(index, position) ==
    /\ index # -1
    /\ prices[index + 1] = position

\* C15: in non-auction mode, pointer right of mid-x with buy data left of
\* it: sellIndex is the index of the nearest price and, when the reflected
\* position 2 * scale(midPrice) - prices[sellIndex] is an entry of prices,
\* buyIndex is that entry's index; symmetrically for sellIndex with the
\* pointer left of mid-x.
C15_ReflectedIndex ==
    ActedOnCurves =>
        LET right     == 10 * ptr.x > ptr.width5
            reflected == IF right THEN ptr.buyNearestX ELSE ptr.sellNearestX
            IsEntry   == \E i \in 1 .. Len(prices) : prices[i] = reflected
        IN  /\ (right /\ 10 * prices[1] < ptr.width5) =>
                /\ ptr.sellIndex = ptr.index
                /\ BoundTo(ptr.sellIndex, ptr.sellNearestX)
                /\ IsEntry => BoundTo(ptr.buyIndex, reflected)
            /\ (~right /\ 10 * prices[Len(prices)] > ptr.width5) =>
                /\ ptr.buyIndex = ptr.index
                /\ BoundTo(ptr.buyIndex, ptr.buyNearestX)
                /\ IsEntry => BoundTo(ptr.sellIndex, reflected)

\* The scenario C15 names, as the code leaves it: prices [10, 20, 30, 40],
\* midPrice at pixel 25, pointer at 32; sellIndex is the index of 30 and
\* buyIndex the index of 10.
C15_Witness ==
    /\ ActedOnCurves
    /\ prices = <<10, 20, 30, 40>>
    /\ Scale(priceScale, midPrice) = 25
    /\ ptr.x = 32
    /\ ptr.sellIndex = 2
    /\ ptr.buyNearestX = 20
    /\ ptr.buyIndex = 0

ActedOnAuction ==
    /\ lastOp \in {"pointermove", "updatePrice", "update"}
    /\ ptr.ran
    /\ ptr.mode = "auction"

\* The squared distance from the pointer to the (price, volume) points at
\* least distance from it.
NearestDist2 ==
    LET d2(i) == Dist2(<<ptr.x, ptr.y>>, <<prices[i], volumes[i]>>)
    IN  d2(CHOOSE i \in 1 .. Len(prices) : \A j \in 1 .. Len(prices) : d2(i) <= d2(j))

\* C17: in auction mode a pointer move hides the auction labels and
\* indicator exactly when the distance from the pointer to the nearest
\* (price, volume) point exceeds 50 * resolution; at any distance up to and
\* including the radius they are shown.
C17_AuctionRadius ==
    ActedOnAuction =>
        \A o \in AuctionGroup :
            visible[o] = (NearestDist2 <= (50 * resolution) * (50 * resolution))

\* The state C17 fails in: the pointer is at exactly the radius from the
\* nearest point and the tooltip is hidden.
C17_Witness ==
    /\ ActedOnAuction
    /\ NearestDist2 = (50 * resolution) * (50 * resolution)
    /\ \A o \in AuctionGroup : ~visible[o]

\* C18: whenever a non-auction pointer move leaves the sell group visible,
\* the offset shown in the sell ratio label,
\* (fRound(priceLabels[sellIndex]) - midPrice) / midPrice * 100, is a number
\* and is not negative.
C18_SellRatioNotNegative ==
    (ActedOnCurves /\ \A o \in SellGroup : visible[o]) =>
        /\ ~ptr.sellOffsetNaN
        /\ ptr.sellOffset * midPrice >= 0

\* The state C18 fails in: the sell group is shown for a price above the mid
\* price, and the offset computed from its label is negative.
C18_Witness ==
    /\ ActedOnCurves
    /\ \A o \in SellGroup : visible[o]
    /\ midPrice > 0
    /\ ptr.sellIndex # -1
    /\ prices[ptr.sellIndex + 1] > Scale(priceScale, midPrice)
    /\ ptr.sellOffset < 0

\* The formatted labels of the ticks computed in the last axis update.
TickLabels ==
    {TickFormat(axisTicks.step, axisTicks.ticks[i]) : i \in DOMAIN axisTicks.ticks}

\* C19: after every HorizontalAxis.update call the key set of the label
\* cache equals the set of formatted labels of the ticks of that call.
C19_LabelCacheKeys ==
    DOMAIN nodeByKeyValue = {Key(label) : label \in TickLabels}

\* An update in which ticks exited and ticks stayed: the container shows
\* fewer tick marks than have ever been created, and nothing was created.
C19_Witness ==
    /\ lastOp = "axisUpdate"
    /\ TickLabels # {}
    /\ axisTicks.created = {}
    /\ \E k \in DOMAIN tmByKeyValue : tmByKeyValue[k] \notin children

\* C20: after every HorizontalAxis.update call the tick-mark cache holds
\* exactly one entry per current tick and none for a tick that has exited.
C20_TickMarkCacheKeys ==
    /\ DOMAIN tmByKeyValue = {KeyBar(label) : label \in TickLabels}
    /\ Cardinality(DOMAIN tmByKeyValue) = Len(axisTicks.ticks)

\* The state C20 fails in: the cache holds an entry for a label that is not
\* among the current ticks, and its tick mark is no longer displayed.
C20_Witness ==
    /\ lastOp = "axisUpdate"
    /\ \E k \in DOMAIN tmByKeyValue :
          /\ k.text \notin TickLabels
          /\ tmByKeyValue[k] \notin children
    /\ Cardinality(DOMAIN tmByKeyValue) > Len(axisTicks.ticks)

\* C21: a label among the ticks of two successive HorizontalAxis.update
\* calls keeps its label object and its tick-mark object: after the second
\* call both maps hold the objects they held after the first, both objects
\* are children of the axis, neither was created by the second call, and
\* both are at scale(tick).
C21_StableNodes ==
    [][\A label \in TickLabels \cap TickLabels' :
          LET text == nodeByKeyValue'[Key(label)]
              tm   == tmByKeyValue'[KeyBar(label)]
              x    == AxisScale(axisTicks'.domain, label.value)
          IN  /\ Key(label) \in DOMAIN nodeByKeyValue
              /\ KeyBar(label) \in DOMAIN tmByKeyValue
              /\ text = nodeByKeyValue[Key(label)]
              /\ tm = tmByKeyValue[KeyBar(label)]
              /\ {text, tm} \subseteq children'
              /\ {text, tm} \cap axisTicks'.created = {}
              /\ nodeX'[text] = x
              /\ nodeX'[tm] = x]_vars

\* An update that kept a label of the call before it, at a new position,
\* while it created the objects of another label.
C21_Witness ==
    /\ lastOp = "axisUpdate"
    /\ axisTicks.created # {}
    /\ \E label \in TickLabels :
          /\ nodeByKeyValue[Key(label)] \notin axisTicks.created
          /\ tmByKeyValue[KeyBar(label)] \notin axisTicks.created
          /\ {nodeByKeyValue[Key(label)], tmByKeyValue[KeyBar(label)]}
                 \subseteq children
          /\ label.value = 10
          /\ nodeX[nodeByKeyValue[Key(label)]] = 0
          /\ nodeX[tmByKeyValue[KeyBar(label)]] = 0

\* C22: the debounce timer armed by a wheel event is either replaced by the
\* timer of a later wheel event or eventually fires, emitting zoomend and
\* resetting gesture.wheel to null; and the timer that fires is always the one
\* gesture.wheel holds, the only one pending: a cleared timer never fires.
C22_DebounceFires ==
    /\ \A h \in TimerHandles :
          (wheel = h) ~>
              \/ lastOp = "timeout" /\ emitted = <<ZoomEnd>> /\ wheel = NoTimer
              \/ lastOp = "wheel" /\ wheel \notin {h, NoTimer}
    /\ [][lastOp' = "timeout" =>
              /\ wheel # NoTimer
              /\ timers = {wheel}
              /\ timers' = {}
              /\ wheel' = NoTimer
              /\ emitted' = <<ZoomEnd>>]_vars

\* The timer of the last wheel event of a burst of several has fired: one
\* zoomend since the burst began, no timer pending, the handle reset.
C22_Witness ==
    /\ lastOp = "timeout"
    /\ burstLen = MaxBurst
    /\ burstEnds = 1
    /\ timers = {}
    /\ wheel = NoTimer
    /\ emitted = <<ZoomEnd>>

\* C23: the nearest-neighbour index over the (price, volume) points is built
\* by update only: a pointer move (a pointermove event or updatePrice) builds
\* no index, and an update call in auction mode builds it exactly once.
C23_IndexBuiltOncePerUpdate ==
    /\ lastOp \in {"pointermove", "updatePrice"} => ptr.builds = 0
    /\ lastOp = "update" /\ indicativePrice # 0 /\ Len(prices) > 1
           => ptr.builds = 1

\* The state C23 fails in: the handler of a pointermove event in auction
\* mode has built the index.
C23_Witness ==
    /\ lastOp = "pointermove"
    /\ ActedOnAuction
    /\ ptr.builds = 1

\* C24: zoomstart and zoomend alternate, starting with zoomstart: a handler
\* emits zoomstart only when the last of the two emitted before it was
\* zoomend (or none was), and zoomend only when it was zoomstart.
C24_StartEndAlternate ==
    [][/\ ZoomStart \in Range(emitted') => gestureOpen = <<>>
       /\ ZoomEnd \in Range(emitted') => gestureOpen # <<>>]_vars

\* The handler emitted a zoom event.
EmitsZoom(events) == \E i \in DOMAIN events : events[i][1] = "zoom"

\* C25: a zoom event is emitted inside an open gesture (the last of
\* zoomstart and zoomend emitted up to it is zoomstart), and the
\* originalTransform a pinch (a touchmove with two touches) computes from is
\* the transform at that zoomstart.
C25_ZoomInsideGesture ==
    [][EmitsZoom(emitted') =>
          /\ gestureOpen' # <<>>
          /\ lastOp' = "touchmove" => gestureOpen' = <<TRUE>>]_vars

\* C26: whenever touch1 is recorded, touch0 is recorded too, with a
\* different identifier.
C26_Touch1ImpliesTouch0 ==
    touch1 # <<>> =>
        /\ touch0 # <<>>
        /\ touch0[1].identifier # touch1[1].identifier

\* A two-touch move: both touches are recorded and the handler has read
\* both positions to emit a zoom.
C26_Witness ==
    /\ lastOp = "touchmove"
    /\ touch1 # <<>>
    /\ touch0 # <<>>
    /\ EmitsZoom(emitted)

\* C27: the auction overlay (the auction labels and indicator) and the
\* buy/sell overlay groups are never visible at the same time.
C27_AuctionExcludesCurves ==
    ~ /\ \E o \in AuctionGroup : visible[o]
      /\ \E o \in BuyGroup \cup SellGroup : visible[o]

\* The state C27 fails in: an auction pointer move has shown the auction
\* labels while the buy price label, which the constructor hides and only a
\* non-auction pointer move shows, is still visible.
C27_Witness ==
    /\ ActedOnAuction
    /\ visible["auctionPriceText"]
    /\ visible["auctionVolumeText"]
    /\ visible["buyPriceText"]

\* C28: after a non-auction pointer move that leaves the buy group visible,
\* prices[buyIndex] lies left of mid-x (half the handler's width), and after
\* one that leaves the sell group visible prices[sellIndex] lies right of it.
C28_SideBoundToOwnCurve ==
    ActedOnCurves =>
        /\ (\A o \in BuyGroup : visible[o]) =>
              /\ ptr.buyIndex # -1
              /\ 10 * prices[ptr.buyIndex + 1] < ptr.width5
        /\ (\A o \in SellGroup : visible[o]) =>
              /\ ptr.sellIndex # -1
              /\ 10 * prices[ptr.sellIndex + 1] > ptr.width5

\* The state C28 fails in: the sell group is visible and bound to a price
\* left of mid-x, which is left of the mid price's position as well; no other
\* price is as near to the pointer.
C28_Witness ==
    /\ ActedOnCurves
    /\ \A o \in SellGroup : visible[o]
    /\ ptr.sellIndex # -1
    /\ 10 * prices[ptr.sellIndex + 1] < ptr.width5
    /\ prices[ptr.sellIndex + 1] < Scale(priceScale, midPrice)
    /\ 10 * Scale(priceScale, midPrice) > ptr.width5
    /\ \A i \in 1 .. Len(prices) :
          i # ptr.sellIndex + 1 =>
              Abs(prices[i] - ptr.x) > Abs(prices[ptr.sellIndex + 1] - ptr.x)

=============================================================================
